---------------------------- MODULE Spec2Model ----------------------------
(***************************************************************************)
(* Model of src/src/format-diff.js: the formatter of the diff blocks of a   *)
(* Markdown document.  The file holds two versions of the program:         *)
(*   Policy A (lines 1-272):   DiffBlockParser, a backtracking scanner     *)
(*       over characters, and a rewriter of the lines starting with - or + *)
(*   Policy B (lines 274-454): findDiffBlocks, a scanner over lines, and a *)
(*       rewriter that pads every non-blank body line.                     *)
(* A document is a sequence of one-character strings.  Positions are the   *)
(* 0-based positions of the JavaScript source: the character at JavaScript *)
(* position p is content[p + 1].                                           *)
(***************************************************************************)
EXTENDS Integers, Sequences, FiniteSets, TLC

VARIABLES
    policy,           \* "A" or "B": which version of the program runs
    content,          \* the document formatMarkdown was called with
    pass,             \* 1: the first call; 2: the call on the first call's output
    pc,               \* position of the run (see Next)
    pos,              \* DiffBlockParser.pos
    blocks,           \* DiffBlockParser.blocks / the blocks of findDiffBlocks
    blockStart,       \* parse(): const blockStart of the open block
    contentStartPos,  \* parse(): const contentStartPos of the open block
    result            \* the value formatMarkdown returned

vars == <<policy, content, pass, pc, pos, blocks, blockStart, contentStartPos, result>>

---------------------------------------------------------------------------
(* Bounds of the model *)

\* longest document of the enumerated family, in lines
MaxLines == 3

\* the indent of the oversized-indent scenario
OversizedIndent == 5000

---------------------------------------------------------------------------
(* Characters and the String methods the program uses *)

NL == "\n"
SP == " "
TAB == "\t"
\* the backtick, written as an apostrophe: SANY reads no backtick inside a string
BT == "'"

\* the characters JavaScript's \s and trim() treat as whitespace, among those
\* the documents of the model are made of
IsWhitespace(c) == c \in {SP, TAB}

MinOf(S) == CHOOSE x \in S : \A y \in S : x <= y

MaxOf(S) == CHOOSE x \in S : \A y \in S : x >= y

Clamp(s, i) == IF i < 0 THEN 0 ELSE IF i > Len(s) THEN Len(s) ELSE i

\* String.prototype.substring(a, b): both ends clamped to the string, swapped
\* when a > b
substring(s, a, b) ==
    LET lo == MinOf({Clamp(s, a), Clamp(s, b)})
        hi == MaxOf({Clamp(s, a), Clamp(s, b)})
    IN  SubSeq(s, lo + 1, hi)

\* String.prototype.substr(p, n): at most n characters from p
substr(s, p, n) == substring(s, p, p + n)

startsWith(s, prefix) ==
    Len(s) >= Len(prefix) /\ SubSeq(s, 1, Len(prefix)) = prefix

\* ' '.repeat(n) with the count clamped to 1000
repeatClamped(n) == [i \in 1..(IF n > 1000 THEN 1000 ELSE n) |-> SP]

\* ' '.repeat(n)
repeat(n) == [i \in 1..n |-> SP]

\* the length of the longest prefix of s made of whitespace: /^(\s*)/
leadingWhitespace(s) ==
    MinOf({i \in 0..Len(s) : i = Len(s) \/ ~IsWhitespace(s[i + 1])})

\* String.prototype.trim()
trim(s) ==
    LET lo == leadingWhitespace(s)
        hi == MaxOf({i \in lo..Len(s) : i = lo \/ ~IsWhitespace(s[i])})
    IN  SubSeq(s, lo + 1, hi)

RECURSIVE split(_)
\* s.split('\n')
split(s) ==
    LET nl == {i \in 1..Len(s) : s[i] = NL}
    IN  IF nl = {} THEN <<s>>
        ELSE <<SubSeq(s, 1, MinOf(nl) - 1)>> \o split(SubSeq(s, MinOf(nl) + 1, Len(s)))

RECURSIVE join(_)
\* lines.join('\n')
join(lines) ==
    IF Len(lines) = 0 THEN <<>>
    ELSE IF Len(lines) = 1 THEN lines[1]
    ELSE lines[1] \o <<NL>> \o join(Tail(lines))

FENCE == <<BT, BT, BT>>

FENCE_DIFF == <<BT, BT, BT, "d", "i", "f", "f">>

---------------------------------------------------------------------------
(* Policy A: class DiffBlockParser *)

isEOF(c, p) == p >= Len(c)

peekN(c, p, n) == substr(c, p, n)

\* the position after the run of ' ' that starts at p (the count the method
\* returns is the difference to p)
consumeSpaces(c, p) ==
    MinOf({i \in p..Len(c) : i = Len(c) \/ c[i + 1] # SP})

skipToNewline(c, p) ==
    LET stop == MinOf({i \in p..Len(c) : i = Len(c) \/ c[i + 1] = NL})
    IN  IF stop < Len(c) THEN stop + 1 ELSE stop

\* consume(str) at p: whether it matches
consume(c, p, str) == peekN(c, p, Len(str)) = str

NoBlockStart == [success |-> FALSE, indentLevel |-> 0, startPos |-> 0, pos |-> 0]

\* the failing branch of parseDiffBlockStart with the restore of pos left out
parseDiffBlockStartNoRestore(c, p) ==
    LET afterSpaces == consumeSpaces(c, p)
    IN  IF consume(c, afterSpaces, FENCE_DIFF)
        THEN [success |-> TRUE, indentLevel |-> afterSpaces - p, startPos |-> p,
              pos |-> skipToNewline(c, afterSpaces + Len(FENCE_DIFF))]
        ELSE [success |-> FALSE, indentLevel |-> 0, startPos |-> p, pos |-> afterSpaces]

\* the record returned, with the parser's pos after the call as field pos
parseDiffBlockStart(c, p) ==
    LET afterSpaces == consumeSpaces(c, p)
    IN  IF consume(c, afterSpaces, FENCE_DIFF)
        THEN [success |-> TRUE, indentLevel |-> afterSpaces - p, startPos |-> p,
              pos |-> skipToNewline(c, afterSpaces + Len(FENCE_DIFF))]
        ELSE [success |-> FALSE, indentLevel |-> 0, startPos |-> p, pos |-> p]

parseDiffBlockEnd(c, p) ==
    LET afterSpaces == consumeSpaces(c, p)
        afterBackticks == afterSpaces + Len(FENCE)
    IN  IF consume(c, afterSpaces, FENCE)
           /\ (isEOF(c, afterBackticks) \/ c[afterBackticks + 1] = NL)
        THEN [success |-> TRUE,
              pos |-> IF isEOF(c, afterBackticks) THEN afterBackticks
                      ELSE afterBackticks + 1]
        ELSE [success |-> FALSE, pos |-> p]

\* adjustedEndPos with 4 subtracted also when the closing fence ends the document
adjustedEndPosNoEof(c, p, cStart) ==
    LET contentEndPos == p - 4
        noSpaces == MaxOf({cStart} \cup {i \in (cStart + 1)..contentEndPos : c[i] # SP})
    IN  IF contentEndPos <= cStart THEN contentEndPos
        ELSE MaxOf({cStart} \cup {i \in (cStart + 1)..noSpaces : c[i] = NL})

\* parse(), lines 153-163: the end of the body of a block whose closing fence
\* has just been consumed, the parser standing at p.  The first while loop
\* steps back to the last character that is no space, the second to the last
\* newline; neither steps below cStart.
adjustedEndPos(c, p, cStart) ==
    LET contentEndPos == p - (IF c[p] = NL THEN 4 ELSE 3)
        noSpaces == MaxOf({cStart} \cup {i \in (cStart + 1)..contentEndPos : c[i] # SP})
    IN  MaxOf({cStart} \cup {i \in (cStart + 1)..noSpaces : c[i] = NL})

\* parse(), lines 165-171
newBlock(c, p, bStart, cStart) ==
    [fullStartPos    |-> bStart.startPos,
     fullEndPos      |-> p,
     contentStartPos |-> cStart,
     contentEndPos   |-> adjustedEndPos(c, p, cStart),
     indentLevel     |-> bStart.indentLevel]


---------------------------------------------------------------------------
(* Policy A: formatDiffBlock and formatMarkdown *)

\* contentStartIdx with the spacesToRemove > 0 test left out of the loop
contentStartIdxAllSpaces(rest, indentLevel) ==
    MinOf({k \in 0..Len(rest) : k = Len(rest) \/ rest[k + 1] # SP})

\* lines 203-209: the number of characters of rest the while loop steps over
contentStartIdx(rest, indentLevel) ==
    MinOf({k \in 0..Len(rest) :
             k = indentLevel \/ k = Len(rest) \/ rest[k + 1] # SP})

\* formatLineA with the spaces after the marker kept
formatLineAKeepSpaces(line, indentLevel) ==
    IF startsWith(line, <<"-">>) \/ startsWith(line, <<"+">>)
    THEN repeat(indentLevel) \o line
    ELSE line

\* lines 193-214: the callback of lines.map
formatLineA(line, indentLevel) ==
    IF startsWith(line, <<"-">>) \/ startsWith(line, <<"+">>)
    THEN LET prefix == line[1]
             rest   == substring(line, 1, Len(line))
             indent == repeat(indentLevel)
         IN  indent \o <<prefix>>
                    \o substring(rest, contentStartIdx(rest, indentLevel), Len(rest))
    ELSE line

formatDiffBlockA(body, indentLevel) ==
    LET lines == split(body)
    IN  join([i \in 1..Len(lines) |-> formatLineA(lines[i], indentLevel)])

RECURSIVE spliceBlocks(_, _, _, _)
\* lines 233-242: the loop, from the block of index i (1-based) down to the first
spliceBlocks(markdown, bs, i, res) ==
    IF i = 0 THEN res
    ELSE LET block == bs[i]
             originalContent ==
                 substring(markdown, block.contentStartPos, block.contentEndPos)
             formattedContent == formatDiffBlockA(originalContent, block.indentLevel)
         IN  spliceBlocks(markdown, bs, i - 1,
                 substring(res, 0, block.contentStartPos)
                     \o formattedContent
                     \o substring(res, block.contentEndPos, Len(res)))

\* assembleA with the blocks spliced from the first to the last
assembleAFrontToBack(markdown, bs) ==
    IF Len(bs) = 0 THEN markdown
    ELSE spliceBlocks(markdown, [i \in 1..Len(bs) |-> bs[Len(bs) + 1 - i]],
                      Len(bs), markdown)

\* formatMarkdown once parser.parse() has returned bs
assembleA(markdown, bs) ==
    IF Len(bs) = 0 THEN markdown
    ELSE spliceBlocks(markdown, bs, Len(bs), markdown)

---------------------------------------------------------------------------
(* Policy B: findDiffBlocks, isDiffHeader, calculateMinCodeIndent,          *)
(* formatDiffBlock and formatMarkdown.  Lines are numbered from 1: line i   *)
(* of the model is lines[i - 1] of the source.                              *)

\* line.match(/^(\s*)```diff$/)
matchesOpen(line) ==
    SubSeq(line, leadingWhitespace(line) + 1, Len(line)) = FENCE_DIFF

\* line.match(/^(\s*)```$/)
matchesClose(line) ==
    SubSeq(line, leadingWhitespace(line) + 1, Len(line)) = FENCE

NoBlock == [startLine |-> 0, endLine |-> 0, indentLevel |-> 0, lines |-> <<>>]

RECURSIVE scanLines(_, _, _, _, _)
\* lines 288-318: the loop from line i on
scanLines(lines, i, state, currentBlock, bs) ==
    IF i > Len(lines) THEN bs
    ELSE IF state = "OUTSIDE"
    THEN IF matchesOpen(lines[i])
         THEN scanLines(lines, i + 1, "IN_DIFF_BLOCK",
                  [startLine   |-> i,
                   endLine     |-> 0,
                   indentLevel |-> leadingWhitespace(lines[i]),
                   lines       |-> <<lines[i]>>],
                  bs)
         ELSE scanLines(lines, i + 1, state, currentBlock, bs)
    ELSE LET pushed == [currentBlock EXCEPT !.lines = Append(@, lines[i])]
         IN  IF matchesClose(lines[i])
             THEN scanLines(lines, i + 1, "OUTSIDE", NoBlock,
                      Append(bs, [pushed EXCEPT !.endLine = i]))
             ELSE scanLines(lines, i + 1, state, pushed, bs)

findDiffBlocks(markdown) == scanLines(split(markdown), 1, "OUTSIDE", NoBlock, <<>>)

isDiffHeader(line) ==
    LET trimmed == trim(line)
    IN  \/ startsWith(trimmed, <<"d", "i", "f", "f", SP>>)
        \/ startsWith(trimmed, <<"-", "-", "-">>)
        \/ startsWith(trimmed, <<"+", "+", "+">>)
        \/ startsWith(trimmed, <<"@", "@">>)
        \/ startsWith(trimmed, <<"i", "n", "d", "e", "x", SP>>)

\* calculateMinCodeIndent with the test for diff headers left out
calculateMinCodeIndentCountingHeaders(blockLines) ==
    LET counted == {i \in 2..(Len(blockLines) - 1) : Len(trim(blockLines[i])) # 0}
    IN  IF counted = {} THEN 0
        ELSE MinOf({leadingWhitespace(blockLines[i]) : i \in counted})

calculateMinCodeIndent(blockLines) ==
    LET counted == {i \in 2..(Len(blockLines) - 1) :
                      /\ Len(trim(blockLines[i])) # 0
                      /\ ~isDiffHeader(blockLines[i])}
    IN  IF counted = {} THEN 0
        ELSE MinOf({leadingWhitespace(blockLines[i]) : i \in counted})

formatDiffBlockB(blockLines, blockIndent) ==
    LET minCodeIndent == calculateMinCodeIndent(blockLines)
        spacesToAdd   == MaxOf({blockIndent - minCodeIndent, 0})
        prefix        == repeat(spacesToAdd)
    IN  [i \in 1..Len(blockLines) |->
            IF i = 1 \/ i = Len(blockLines) THEN blockLines[i]
            ELSE IF Len(trim(blockLines[i])) = 0 THEN blockLines[i]
            ELSE prefix \o blockLines[i]]

RECURSIVE assembleLines(_, _, _, _, _)
\* lines 410-426: the loop from the block of index k on, then the lines left
assembleLines(lines, bs, k, currentLine, res) ==
    IF k > Len(bs)
    THEN res \o SubSeq(lines, currentLine, Len(lines))
    ELSE LET block == bs[k]
         IN  assembleLines(lines, bs, k + 1, block.endLine + 1,
                 res \o SubSeq(lines, currentLine, block.startLine - 1)
                     \o formatDiffBlockB(block.lines, block.indentLevel))

\* formatMarkdown once findDiffBlocks has returned bs
assembleB(markdown, bs) ==
    IF Len(bs) = 0 THEN markdown
    ELSE join(assembleLines(split(markdown), bs, 1, 1, <<>>))

---------------------------------------------------------------------------
(* The documents formatMarkdown is called with *)

\* n spaces, as text of a document
Spaces(n) == [i \in 1..n |-> SP]

\* s indented by n spaces
Indented(n, s) == Spaces(n) \o s

\* the lines the enumerated documents are made of: an opening fence indented
\* by one space, a closing fence, a changed line, a header line, an empty
\* line and a context line
Lines ==
    { Indented(1, FENCE_DIFF),
      FENCE,
      <<"-", SP, "a">>,
      <<"-", "-", "-">>,
      <<>>,
      <<SP, "c">> }

\* every document of at most MaxLines of these lines (a last empty line is a
\* document that ends with a newline)
EnumeratedDocs ==
    {join(ls) : ls \in UNION {[1..k -> Lines] : k \in 1..MaxLines}}

\* spec.md, concrete scenario 1: fence indented by 2, body "- old", "+ new"
Scenario1Doc ==
    join(<< Indented(2, FENCE_DIFF),
            <<"-", SP, "o", "l", "d">>,
            <<"+", SP, "n", "e", "w">>,
            Indented(2, FENCE) >>)

\* concrete scenario 2: an opening fence line inside the body of a block
NestedDoc ==
    join(<< Indented(1, FENCE_DIFF), Indented(2, FENCE_DIFF), <<"-", "a">>,
            Indented(1, FENCE), <<>> >>)

\* two blocks, an indented line of text between them, both bodies rewritten
\* and made longer by both policies
TwoBlocksDoc ==
    join(<< Indented(1, FENCE_DIFF), <<"-", "a">>, Indented(1, FENCE),
            <<SP, "t">>,
            Indented(2, FENCE_DIFF), <<"+", "b">>, <<"c">>, Indented(2, FENCE),
            <<>> >>)

\* a block whose body holds diff header lines only
HeaderOnlyDoc ==
    join(<< Indented(1, FENCE_DIFF),
            <<"-", "-", "-", SP, "a">>,
            <<"+", "+", "+", SP, "b">>,
            Indented(1, FENCE) >>)

\* a block with header lines, a changed line, a context line and a blank line
HeaderDoc ==
    join(<< Indented(2, FENCE_DIFF),
            <<"-", "-", "-", SP, "a">>,
            <<"@", "@">>,
            <<"-", "x">>,
            <<SP, "c">>,
            <<>>,
            Indented(2, FENCE) >>)

\* changed lines with more and with fewer spaces after the marker than the
\* fence indent
StripDoc ==
    join(<< Indented(2, FENCE_DIFF),
            <<"-", SP, SP, SP, "x">>,
            <<"+", SP, "y">>,
            <<"+">>,
            Indented(2, FENCE),
            <<>> >>)

\* the opening fence after other text on its line
MidLineDoc ==
    join(<< <<"x", SP>> \o FENCE_DIFF, <<"-", "a">>, FENCE >>)

\* the opening fence followed by other characters on its line
TrailingDoc ==
    join(<< Indented(1, FENCE_DIFF) \o <<SP, "x">>, <<"-", SP, "a">>, FENCE >>)

\* fences indented by a tab
TabDoc ==
    join(<< <<TAB>> \o FENCE_DIFF, <<"-", "a">>, <<TAB>> \o FENCE >>)

\* an opening fence that is never closed
UnterminatedDoc ==
    join(<< Indented(1, FENCE_DIFF), <<"-", SP, "a">>, <<"t">> >>)

\* a block whose fence is indented by OversizedIndent spaces
OversizedDoc ==
    join(<< Indented(OversizedIndent, FENCE_DIFF), <<"-", "a">>, FENCE >>)

ScenarioDocs ==
    { Scenario1Doc, Scenario1Doc \o <<NL>>, NestedDoc, TwoBlocksDoc, HeaderOnlyDoc,
      HeaderDoc, StripDoc, MidLineDoc, TrailingDoc, TabDoc, UnterminatedDoc,
      OversizedDoc }

Documents == EnumeratedDocs \cup ScenarioDocs

---------------------------------------------------------------------------
(* The run: formatMarkdown(content), then formatMarkdown on what it returned *)

Init ==
    /\ policy \in {"A", "B"}
    /\ content \in Documents
    /\ pass = 1
    /\ pc = "formatMarkdown"
    /\ pos = 0
    /\ blocks = <<>>
    /\ blockStart = NoBlockStart
    /\ contentStartPos = 0
    /\ result = <<>>

\* Policy A, line 223: new DiffBlockParser(markdown), and parse() is entered
NewParser ==
    /\ pc = "formatMarkdown"
    /\ policy = "A"
    /\ pos' = 0
    /\ blocks' = <<>>
    /\ pc' = "outer"
    /\ UNCHANGED <<policy, content, pass, blockStart, contentStartPos, result>>

\* parse(), lines 140-146 and 178-181: one test of the outer loop and, when
\* it passes, parseDiffBlockStart and what follows it up to the inner loop
ParseOuter ==
    /\ pc = "outer"
    /\ IF isEOF(content, pos)
       THEN /\ pc' = "parsed"
            /\ UNCHANGED <<pos, blockStart, contentStartPos>>
       ELSE LET started == parseDiffBlockStart(content, pos)
            IN  IF started.success
                THEN /\ blockStart' = started
                     /\ contentStartPos' = started.pos
                     /\ pos' = started.pos
                     /\ pc' = "inner"
                ELSE /\ pos' = started.pos + 1
                     /\ UNCHANGED <<pc, blockStart, contentStartPos>>
    /\ UNCHANGED <<policy, content, pass, blocks, result>>

\* parse(), lines 148-177: one test of the inner loop and, when it passes,
\* one iteration of it
ParseInner ==
    /\ pc = "inner"
    /\ IF isEOF(content, pos)
       THEN /\ pc' = "outer"
            /\ UNCHANGED <<pos, blocks>>
       ELSE LET ended == parseDiffBlockEnd(content, pos)
            IN  IF ended.success
                THEN /\ blocks' = Append(blocks,
                            newBlock(content, ended.pos, blockStart, contentStartPos))
                     /\ pos' = ended.pos
                     /\ pc' = "outer"
                ELSE /\ pos' = skipToNewline(content, ended.pos)
                     /\ UNCHANGED <<pc, blocks>>
    /\ UNCHANGED <<policy, content, pass, blockStart, contentStartPos, result>>

\* Policy A, lines 226-244: formatMarkdown after parser.parse()
FormatMarkdownA ==
    /\ pc = "parsed"
    /\ policy = "A"
    /\ result' = assembleA(content, blocks)
    /\ pc' = "returned"
    /\ UNCHANGED <<policy, content, pass, pos, blocks, blockStart, contentStartPos>>

\* Policy B, lines 399-400
FindDiffBlocks ==
    /\ pc = "formatMarkdown"
    /\ policy = "B"
    /\ blocks' = findDiffBlocks(content)
    /\ pc' = "parsed"
    /\ UNCHANGED <<policy, content, pass, pos, blockStart, contentStartPos, result>>

\* Policy B, lines 402-428
FormatMarkdownB ==
    /\ pc = "parsed"
    /\ policy = "B"
    /\ result' = assembleB(content, blocks)
    /\ pc' = "returned"
    /\ UNCHANGED <<policy, content, pass, pos, blocks, blockStart, contentStartPos>>

\* the formatted document is formatted again
SecondPass ==
    /\ pc = "returned"
    /\ pass = 1
    /\ content' = result
    /\ pass' = 2
    /\ pc' = "formatMarkdown"
    /\ pos' = 0
    /\ blocks' = <<>>
    /\ blockStart' = NoBlockStart
    /\ contentStartPos' = 0
    /\ result' = <<>>
    /\ UNCHANGED policy

Next ==
    \/ NewParser
    \/ ParseOuter
    \/ ParseInner
    \/ FormatMarkdownA
    \/ FindDiffBlocks
    \/ FormatMarkdownB
    \/ SecondPass

Spec == Init /\ [][Next]_vars

\* parse() runs on one thread, nothing else runs beside it: an iteration of a
\* loop that can be taken is taken
FairSpec == Spec /\ WF_vars(ParseOuter) /\ WF_vars(ParseInner)

---------------------------------------------------------------------------
(* What the claims speak of *)

NewlineCount(s) == Cardinality({i \in 1..Len(s) : s[i] = NL})

RECURSIVE AfterNewlines(_, _, _)
\* the position in s after the m-th newline at or after position from
\* (past the end of s when there are fewer)
AfterNewlines(s, from, m) ==
    IF m = 0 THEN from
    ELSE LET nls == {i \in from..(Len(s) - 1) : s[i + 1] = NL}
         IN  IF nls = {} THEN Len(s) + 1
             ELSE AfterNewlines(s, MinOf(nls) + 1, m - 1)

\* Policy A: the body of block i in the document
Body(i) == substring(content, blocks[i].contentStartPos, blocks[i].contentEndPos)

\* Policy A: the text before the body of block k + 1 and after the body of
\* block k (the whole head for k = 0, the whole tail for k = Len(blocks))
GapStart(k) == IF k = 0 THEN 0 ELSE blocks[k].contentEndPos

GapEnd(k) == IF k = Len(blocks) THEN Len(content) ELSE blocks[k + 1].contentStartPos

Gap(k) == substring(content, GapStart(k), GapEnd(k))

RECURSIVE OutBodyEnd(_)
\* Policy A: where the body of block i lies in the output, found by its place
\* after the gaps before it and by its number of lines
OutBodyStart(i) == (IF i = 1 THEN 0 ELSE OutBodyEnd(i - 1)) + Len(Gap(i - 1))

OutBodyEnd(i) == AfterNewlines(result, OutBodyStart(i), NewlineCount(Body(i)))

OutBody(i) == substring(result, OutBodyStart(i), OutBodyEnd(i))

OutGapStart(k) == IF k = 0 THEN 0 ELSE OutBodyEnd(k)

\* Policy A: every gap of the document stands unchanged in the output, in
\* order, and the output holds nothing after the last
FrameA ==
    /\ \A k \in 0..Len(blocks) :
          substring(result, OutGapStart(k), OutGapStart(k) + Len(Gap(k))) = Gap(k)
    /\ OutGapStart(Len(blocks)) + Len(Gap(Len(blocks))) = Len(result)

\* Policy B: line i lies strictly between the fences of a block
InBodyB(i) == \E k \in 1..Len(blocks) : blocks[k].startLine < i /\ i < blocks[k].endLine

\* Policy B: the output has the lines of the document, and every line that
\* is not a body line is unchanged
FrameB ==
    /\ Len(split(result)) = Len(split(content))
    /\ \A i \in 1..Len(split(content)) :
          ~InBodyB(i) => split(result)[i] = split(content)[i]

\* C1: when formatMarkdown has returned, under Policy A and under Policy B,
\* every character outside the bodies of the detected blocks stands in the
\* output unchanged and in order; the opening and the closing fence line of
\* every block are among these characters.
FramePreserved ==
    pc = "returned" =>
        /\ policy = "A" => FrameA
        /\ policy = "B" => FrameB

\* C1, its case: Policy A has returned a document with two blocks, both
\* bodies rewritten.
FramePreservedWitness ==
    /\ pc = "returned"
    /\ policy = "A"
    /\ pass = 1
    /\ Len(blocks) = 2
    /\ OutBody(1) # Body(1)
    /\ OutBody(2) # Body(2)

\* C2: formatting the output of formatMarkdown again returns it unchanged,
\* under both policies and for every document, the blocks whose body holds
\* only header lines and blank lines included.
Idempotent == (pc = "returned" /\ pass = 2) => result = content

\* the classes of body lines of spec.md: a header line starts with "diff ",
\* "---", "+++", "@@" or "index "
HeaderLine(line) ==
    \/ startsWith(line, <<"d", "i", "f", "f", SP>>)
    \/ startsWith(line, <<"-", "-", "-">>)
    \/ startsWith(line, <<"+", "+", "+">>)
    \/ startsWith(line, <<"@", "@">>)
    \/ startsWith(line, <<"i", "n", "d", "e", "x", SP>>)

StartsWithMarker(line) == Len(line) > 0 /\ line[1] \in {"-", "+"}

ChangedLine(line) == StartsWithMarker(line) /\ ~HeaderLine(line)

BlankLine(line) == \A i \in 1..Len(line) : IsWhitespace(line[i])

LeadingSpaces(s) == Cardinality({i \in 1..Len(s) : \A j \in 1..i : s[j] = SP})

Smaller(a, b) == IF a < b THEN a ELSE b

\* new_line = " "*fence_indent + marker + rest[k:], k = min(fence_indent,
\* leading spaces of rest), for a line that starts with - or +
Rewritten(line, n) ==
    IF StartsWithMarker(line)
    THEN Spaces(n) \o <<line[1]>>
             \o SubSeq(line, 2 + Smaller(n, LeadingSpaces(Tail(line))), Len(line))
    ELSE line

\* C3: under Policy B, in every detected block, a header line is emitted
\* unchanged and is not counted for the minimum indent; a blank line is
\* emitted unchanged; every other body line gets max(fence_indent -
\* min_code_indent, 0) spaces in front.
HeadersExcludedB ==
    (pc = "returned" /\ policy = "B") =>
        \A k \in 1..Len(blocks) :
            LET body == SubSeq(blocks[k].lines, 2, Len(blocks[k].lines) - 1)
                code == {i \in 1..Len(body) :
                           ~BlankLine(body[i]) /\ ~isDiffHeader(body[i])}
                min  == IF code = {} THEN 0
                        ELSE MinOf({leadingWhitespace(body[i]) : i \in code})
                pad  == MaxOf({blocks[k].indentLevel - min, 0})
            IN  \A i \in 1..Len(body) :
                    split(result)[blocks[k].startLine + i] =
                        IF i \in code THEN Spaces(pad) \o body[i] ELSE body[i]

\* C4 as claimed: under Policy A every body line that is not a changed line
\* (a header line, a context line, a blank line) is byte-identical in the
\* output, whatever the fence indent.
OnlyChangedLinesRewrittenA ==
    (pc = "returned" /\ policy = "A") =>
        \A i \in 1..Len(blocks) :
            \A j \in 1..Len(split(Body(i))) :
                ~ChangedLine(split(Body(i))[j]) =>
                    split(OutBody(i))[j] = split(Body(i))[j]

\* C4 as amended: under Policy A every body line that starts with - or +, the
\* header lines starting with --- or +++ among them, is rewritten to
\* fence_indent spaces, the marker, and the rest less its first
\* min(fence_indent, leading spaces) spaces; every other body line is
\* byte-identical in the output.
MarkerLinesRewrittenA ==
    (pc = "returned" /\ policy = "A") =>
        \A i \in 1..Len(blocks) :
            split(OutBody(i)) =
                [j \in 1..Len(split(Body(i))) |->
                    Rewritten(split(Body(i))[j], blocks[i].indentLevel)]

\* C4, its case: Policy A has returned a block of indent 2 whose body has a
\* header line starting with ---, a header line that starts with no marker, a
\* changed line, a context line and a blank line.
MarkerLinesRewrittenAWitness ==
    /\ pc = "returned"
    /\ policy = "A"
    /\ pass = 1
    /\ content = HeaderDoc
    /\ Len(blocks) = 1
    /\ blocks[1].indentLevel = 2

Scenario1Expected ==
    join(<< Indented(2, FENCE_DIFF),
            Indented(2, <<"-", "o", "l", "d">>),
            Indented(2, <<"+", "n", "e", "w">>),
            Indented(2, FENCE) >>)

Scenario1Claimed ==
    join(<< Indented(2, FENCE_DIFF),
            Indented(2, <<"-", SP, "o", "l", "d">>),
            Indented(2, <<"+", SP, "n", "e", "w">>),
            Indented(2, FENCE) >>)

\* C5 as claimed: for the block of scenario 1 (fence indented by 2, body
\* lines "- old" and "+ new") Policy A returns the body lines "  - old" and
\* "  + new".
Scenario1AsClaimed ==
    (pc = "returned" /\ policy = "A" /\ pass = 1 /\ content = Scenario1Doc) =>
        result = Scenario1Claimed

\* C5 as amended: for the block of scenario 1 Policy A returns the body lines
\* "  -old" and "  +new": 2 spaces before the marker, and the one space after
\* the marker removed; the fence lines are unchanged.
Scenario1A ==
    (pc = "returned" /\ policy = "A" /\ pass = 1) =>
        /\ content = Scenario1Doc => result = Scenario1Expected
        /\ content = Scenario1Doc \o <<NL>> => result = Scenario1Expected \o <<NL>>

\* C5, its case: Policy A has returned the document of scenario 1.
Scenario1AWitness ==
    /\ pc = "returned"
    /\ policy = "A"
    /\ pass = 1
    /\ content = Scenario1Doc
    /\ Len(blocks) = 1
    /\ blocks[1].indentLevel = 2

\* a document has no diff fence: no line is whitespace followed by the
\* opening fence (with or without text after it)
NoDiffFence(c) ==
    \A i \in 1..Len(split(c)) :
        ~startsWith(SubSeq(split(c)[i], leadingWhitespace(split(c)[i]) + 1,
                           Len(split(c)[i])),
                    FENCE_DIFF)

\* C6: a document with no diff fence is returned unchanged, under both
\* policies, also when the opening fence stands after other text on a line.
NoFenceUnchanged ==
    (pc = "returned" /\ NoDiffFence(content)) => result = content

OversizedExpected ==
    join(<< Indented(OversizedIndent, FENCE_DIFF),
            Indented(OversizedIndent, <<"-", "a">>),
            FENCE >>)

ParseProgress ==
    [][ (pc \in {"outer", "inner"} /\ ~isEOF(content, pos)) =>
            /\ pos' > pos
            /\ pos' <= Len(content)
            /\ (pc = "outer" /\ pc' = "outer") => pos' = pos + 1 ]_vars

\* C8: every iteration of the outer and of the inner loop of parse() ends
\* with pos greater than at its start, a failed fence-open match leaves pos
\* one character further, pos never exceeds the length of the document, and
\* parse() terminates.
ParseTerminates ==
    /\ ParseProgress
    /\ [](pos <= Len(content))
    /\ (pc = "outer") ~> (pc = "parsed")

\* C8, its case: parse() has ended at the end of the document with two
\* blocks and, between them, a line of text that starts with a space: there
\* the fence-open match failed after its spaces were consumed.
ParseTerminatesWitness ==
    /\ pc = "parsed"
    /\ policy = "A"
    /\ pass = 1
    /\ content = TwoBlocksDoc
    /\ pos = Len(content)
    /\ Len(blocks) = 2
    /\ \E p \in blocks[1].fullEndPos..(blocks[2].fullStartPos - 1) :
          /\ consumeSpaces(content, p) > p
          /\ ~parseDiffBlockStart(content, p).success

\* Policy A: the positions of every block are ordered and inside the document
BlocksOrderedA ==
    /\ \A i \in 1..Len(blocks) :
          /\ 0 <= blocks[i].fullStartPos
          /\ blocks[i].fullStartPos <= blocks[i].contentStartPos
          /\ blocks[i].contentStartPos <= blocks[i].contentEndPos
          /\ blocks[i].contentEndPos <= blocks[i].fullEndPos
          /\ blocks[i].fullEndPos <= Len(content)
          /\ blocks[i].indentLevel >= 0
    /\ \A i \in 1..(Len(blocks) - 1) :
          blocks[i].fullEndPos <= blocks[i + 1].fullStartPos
    /\ \A i, j \in 1..Len(blocks) :
          ~(blocks[i].fullStartPos < blocks[j].fullStartPos
              /\ blocks[j].fullStartPos < blocks[i].fullEndPos)

\* Policy B: the same, in lines; the body of a block is the lines after
\* startLine and before endLine
BlocksOrderedB ==
    /\ \A i \in 1..Len(blocks) :
          /\ 1 <= blocks[i].startLine
          /\ blocks[i].startLine + 1 <= blocks[i].endLine
          /\ blocks[i].endLine <= Len(split(content))
          /\ blocks[i].indentLevel >= 0
          /\ blocks[i].lines =
                 SubSeq(split(content), blocks[i].startLine, blocks[i].endLine)
    /\ \A i \in 1..(Len(blocks) - 1) :
          blocks[i].endLine < blocks[i + 1].startLine
    /\ \A i, j \in 1..Len(blocks) :
          ~(blocks[i].startLine < blocks[j].startLine
              /\ blocks[j].startLine <= blocks[i].endLine)

\* C9: every block either scanner emits has start <= body_start <= body_end
\* <= end inside the document and fence_indent >= 0; the blocks are ordered
\* and do not overlap; no block starts inside another, so an opening fence
\* line inside an open block starts no second block.
BlockListInvariant ==
    /\ policy = "A" => BlocksOrderedA
    /\ policy = "B" => BlocksOrderedB

\* C9, its case: parse() has emitted the one block of the document that has
\* an opening fence line inside the body of its block.
BlockListInvariantWitness ==
    /\ pc = "parsed"
    /\ policy = "A"
    /\ content = NestedDoc
    /\ Len(blocks) = 1
    /\ blocks[1].contentStartPos < blocks[1].contentEndPos

RECURSIVE LineStart(_, _)
\* the position in the document where line i of lines starts
LineStart(lines, i) ==
    IF i = 1 THEN 0 ELSE LineStart(lines, i - 1) + Len(lines[i - 1]) + 1

\* the blocks of findDiffBlocks with their lines as positions in the document
BlocksAsPositions(c) ==
    LET bs == findDiffBlocks(c)
    IN  [k \in 1..Len(bs) |->
            [fullStartPos    |-> LineStart(split(c), bs[k].startLine),
             fullEndPos      |-> Smaller(LineStart(split(c), bs[k].endLine + 1), Len(c)),
             contentStartPos |-> LineStart(split(c), bs[k].startLine + 1),
             contentEndPos   |-> LineStart(split(c), bs[k].endLine),
             indentLevel     |-> bs[k].indentLevel]]

\* C10: on every document DiffBlockParser.parse and findDiffBlocks detect the
\* same blocks: the same fence lines, the same fence indent, the same bodies.
ScannersAgree ==
    (pc = "parsed" /\ policy = "A") => blocks = BlocksAsPositions(content)

=============================================================================
